---- MODULE Spec2Model ----
(***************************************************************************)
(* Unit-economics calculator (src/calc.py): the cost model                 *)
(* calculate_metrics, the save handler that builds a snapshot, renders the *)
(* report and stores the record, and load_calculation that restores a      *)
(* snapshot into the session state.                                        *)
(*                                                                         *)
(* Python's float is IEEE-754 binary64.  The model computes with it bit    *)
(* for bit: a float is a record [sgn, m, e] of value (-1)^sgn * m * 2^e    *)
(* whose mantissa m is an arbitrary-precision natural number (a sequence   *)
(* of limbs, since TLC's integers are 32 bits wide), and every arithmetic  *)
(* operation rounds its exact result to 53 significant bits, ties to even. *)
(* Exponent overflow and subnormals are out of reach of the model's        *)
(* inputs and are not modelled.                                            *)
(***************************************************************************)
EXTENDS Integers, Sequences, FiniteSets, TLC

(***************************************************************************)
(* Arbitrary-precision naturals: little-endian sequences of limbs in       *)
(* 0..LimbBase-1 with no leading (most significant) zero limb; <<>> is 0.  *)
(***************************************************************************)
LimbBase == 2^15
LimbBits == CHOOSE k \in 1..30 : 2^k = LimbBase

RECURSIVE BStrip(_)
BStrip(a) ==
    IF a = <<>> THEN <<>>
    ELSE IF a[Len(a)] = 0 THEN BStrip(SubSeq(a, 1, Len(a) - 1))
    ELSE a

RECURSIVE BFromInt(_)
BFromInt(n) == IF n = 0 THEN <<>> ELSE <<n % LimbBase>> \o BFromInt(n \div LimbBase)

RECURSIVE BToInt(_)
BToInt(a) == IF a = <<>> THEN 0 ELSE a[1] + LimbBase * BToInt(Tail(a))

Limb(a, i) == IF i <= Len(a) THEN a[i] ELSE 0

Max(x, y) == IF x >= y THEN x ELSE y
Min(x, y) == IF x <= y THEN x ELSE y

RECURSIVE BAddFrom(_, _, _, _, _)
BAddFrom(a, b, i, carry, acc) ==
    IF i > Max(Len(a), Len(b))
    THEN IF carry = 0 THEN acc ELSE Append(acc, carry)
    ELSE LET s == Limb(a, i) + Limb(b, i) + carry
         IN  BAddFrom(a, b, i + 1, s \div LimbBase, Append(acc, s % LimbBase))

BAdd(a, b) == BAddFrom(a, b, 1, 0, <<>>)

\* a - b for a >= b
RECURSIVE BSubFrom(_, _, _, _, _)
BSubFrom(a, b, i, borrow, acc) ==
    IF i > Len(a) THEN BStrip(acc)
    ELSE LET d == Limb(a, i) - Limb(b, i) - borrow
         IN  IF d < 0 THEN BSubFrom(a, b, i + 1, 1, Append(acc, d + LimbBase))
                      ELSE BSubFrom(a, b, i + 1, 0, Append(acc, d))

BSub(a, b) == BSubFrom(a, b, 1, 0, <<>>)

\* -1, 0, 1 as a < b, a = b, a > b
RECURSIVE BCmpFrom(_, _, _)
BCmpFrom(a, b, i) ==
    IF i = 0 THEN 0
    ELSE IF a[i] < b[i] THEN -1
    ELSE IF a[i] > b[i] THEN 1
    ELSE BCmpFrom(a, b, i - 1)

BCmp(a, b) ==
    IF Len(a) < Len(b) THEN -1
    ELSE IF Len(a) > Len(b) THEN 1
    ELSE BCmpFrom(a, b, Len(a))

\* a * k for 0 <= k < LimbBase
RECURSIVE BMulSmallFrom(_, _, _, _, _)
BMulSmallFrom(a, k, i, carry, acc) ==
    IF i > Len(a)
    THEN IF carry = 0 THEN acc ELSE Append(acc, carry)
    ELSE LET p == a[i] * k + carry
         IN  BMulSmallFrom(a, k, i + 1, p \div LimbBase, Append(acc, p % LimbBase))

BMulSmall(a, k) == IF k = 0 \/ a = <<>> THEN <<>> ELSE BMulSmallFrom(a, k, 1, 0, <<>>)

Zeros(n) == [i \in 1..n |-> 0]

RECURSIVE BMulFrom(_, _, _, _)
BMulFrom(a, b, i, acc) ==
    IF i > Len(b) THEN acc
    ELSE BMulFrom(a, b, i + 1,
                  IF b[i] = 0 THEN acc
                  ELSE BAdd(acc, Zeros(i - 1) \o BMulSmall(a, b[i])))

BMul(a, b) == IF a = <<>> \/ b = <<>> THEN <<>> ELSE BMulFrom(a, b, 1, <<>>)

\* quotient and remainder of a by d, 0 < d < LimbBase
RECURSIVE BDivSmallFrom(_, _, _, _, _)
BDivSmallFrom(a, d, i, rem, acc) ==
    IF i = 0 THEN [q |-> BStrip(acc), r |-> rem]
    ELSE LET x == rem * LimbBase + a[i]
         IN  BDivSmallFrom(a, d, i - 1, x % d, <<x \div d>> \o acc)

BDivSmall(a, d) == BDivSmallFrom(a, d, Len(a), 0, <<>>)

IntBitLen(n) == CHOOSE k \in 0..LimbBits : n < 2^k /\ (k = 0 \/ n >= 2^(k - 1))

BBitLen(a) == IF a = <<>> THEN 0 ELSE LimbBits * (Len(a) - 1) + IntBitLen(a[Len(a)])

BShl(a, k) ==
    IF a = <<>> THEN <<>>
    ELSE Zeros(k \div LimbBits) \o BMulSmall(a, 2^(k % LimbBits))

BShr(a, k) ==
    IF k \div LimbBits >= Len(a) THEN <<>>
    ELSE BDivSmall(SubSeq(a, k \div LimbBits + 1, Len(a)), 2^(k % LimbBits)).q

BIsOdd(a) == a /= <<>> /\ a[1] % 2 = 1

\* the number of trailing zero bits of a /= 0
RECURSIVE BTrailingZeros(_, _)
BTrailingZeros(a, i) ==
    IF a[i] = 0 THEN LimbBits + BTrailingZeros(a, i + 1)
    ELSE CHOOSE k \in 0..(LimbBits - 1) : a[i] % 2^k = 0 /\ a[i] % 2^(k + 1) /= 0

(***************************************************************************)
(* binary64.  A float is [sgn, m, e]: (-1)^sgn * m * 2^e with m odd (or    *)
(* m = 0, e = 0), so equal values are equal records, up to the sign of 0.  *)
(***************************************************************************)
MantBits == 53

\* the exact value m * 2^e (m of any length) as a record with m odd
FNormal(sgn, m, e) ==
    IF m = <<>> THEN [sgn |-> sgn, m |-> <<>>, e |-> 0]
    ELSE LET z == BTrailingZeros(m, 1)
         IN  [sgn |-> sgn, m |-> BShr(m, z), e |-> e + z]

\* the exact value m * 2^e rounded to the nearest float, ties to even
FRound(sgn, m, e) ==
    IF BBitLen(m) <= MantBits THEN FNormal(sgn, m, e)
    ELSE LET k    == BBitLen(m) - MantBits
             q    == BShr(m, k)
             rest == BSub(m, BShl(q, k))
             c    == BCmp(rest, BShl(<<1>>, k - 1))
             up   == c > 0 \/ (c = 0 /\ BIsOdd(q))
         IN  FNormal(sgn, IF up THEN BAdd(q, <<1>>) ELSE q, e + k)

\* float(n) for a Python int n
FromInt(n) == IF n < 0 THEN FNormal(1, BFromInt(-n), 0) ELSE FNormal(0, BFromInt(n), 0)

FZero == FromInt(0)
FIsZero(x) == x.m = <<>>
FNeg(x) == [x EXCEPT !.sgn = 1 - x.sgn]

\* the mantissas of x and y over their common (smaller) exponent
Aligned(x, y) ==
    LET e == Min(x.e, y.e)
    IN  [mx |-> BShl(x.m, x.e - e), my |-> BShl(y.m, y.e - e), e |-> e]

\* -1, 0, 1 as |x| < |y|, |x| = |y|, |x| > |y|
FCmpMag(x, y) ==
    IF FIsZero(x) \/ FIsZero(y)
    THEN (IF FIsZero(x) THEN 0 ELSE 1) - (IF FIsZero(y) THEN 0 ELSE 1)
    ELSE LET a == Aligned(x, y) IN BCmp(a.mx, a.my)

\* -1, 0, 1 as x < y, x == y, x > y (Python's comparison; -0.0 == 0.0)
FCmp(x, y) ==
    IF FIsZero(x) /\ FIsZero(y) THEN 0
    ELSE IF FIsZero(x) THEN (IF y.sgn = 1 THEN 1 ELSE -1)
    ELSE IF FIsZero(y) THEN (IF x.sgn = 1 THEN -1 ELSE 1)
    ELSE IF x.sgn /= y.sgn THEN (IF x.sgn = 1 THEN -1 ELSE 1)
    ELSE IF x.sgn = 0 THEN FCmpMag(x, y) ELSE 0 - FCmpMag(x, y)

FEq(x, y) == FCmp(x, y) = 0
FLt(x, y) == FCmp(x, y) < 0
FLe(x, y) == FCmp(x, y) <= 0

\* the exact sum x + y, unrounded (any mantissa length)
ExactAdd(x, y) ==
    IF FIsZero(x) /\ FIsZero(y)
    THEN [sgn |-> IF x.sgn = 1 /\ y.sgn = 1 THEN 1 ELSE 0, m |-> <<>>, e |-> 0]
    ELSE IF FIsZero(x) THEN y
    ELSE IF FIsZero(y) THEN x
    ELSE LET a == Aligned(x, y)
             c == BCmp(a.mx, a.my)
         IN  IF x.sgn = y.sgn THEN [sgn |-> x.sgn, m |-> BAdd(a.mx, a.my), e |-> a.e]
             ELSE IF c = 0 THEN [sgn |-> 0, m |-> <<>>, e |-> 0]
             ELSE IF c > 0 THEN [sgn |-> x.sgn, m |-> BSub(a.mx, a.my), e |-> a.e]
             ELSE [sgn |-> y.sgn, m |-> BSub(a.my, a.mx), e |-> a.e]

\* the exact product x * y, unrounded
ExactMul(x, y) ==
    IF FIsZero(x) \/ FIsZero(y)
    THEN [sgn |-> (x.sgn + y.sgn) % 2, m |-> <<>>, e |-> 0]
    ELSE [sgn |-> (x.sgn + y.sgn) % 2, m |-> BMul(x.m, y.m), e |-> x.e + y.e]

Rounded(v) == FRound(v.sgn, v.m, v.e)

\* the exact difference x - y, unrounded
ExactSub(x, y) == ExactAdd(x, FNeg(y))

\* an exact value in the form of a float (m odd), whatever m's length
Exact(v) == FNormal(v.sgn, v.m, v.e)

\* Python's x + y, x - y, x * y on floats
FAdd(x, y) == Rounded(ExactAdd(x, y))
FSub(x, y) == Rounded(ExactSub(x, y))
FMul(x, y) == Rounded(ExactMul(x, y))

\* Python's x / y for y /= 0 whose odd mantissa is below LimbBase (every
\* divisor of the program is 100, a unit count or a price): the quotient
\* is taken to GuardBits bits beyond the mantissa, a sticky bit records a
\* non-zero remainder, and the result is rounded once.
GuardBits == MantBits + LimbBits + 3
FDiv(x, y) ==
    IF FIsZero(x) THEN [sgn |-> (x.sgn + y.sgn) % 2, m |-> <<>>, e |-> 0]
    ELSE LET d  == BDivSmall(BShl(x.m, GuardBits), BToInt(y.m))
             q2 == BAdd(BShl(d.q, 1), IF d.r = 0 THEN <<>> ELSE <<1>>)
         IN  FRound((x.sgn + y.sgn) % 2, q2, x.e - y.e - GuardBits - 1)

\* Python's int(x): truncation toward zero
FTrunc(x) ==
    LET mag == IF x.e >= 0 THEN BToInt(BShl(x.m, x.e)) ELSE BToInt(BShr(x.m, 0 - x.e))
    IN  IF x.sgn = 1 THEN 0 - mag ELSE mag

\* the float nearest to cents/100: what a two-decimal literal such as 18.58
\* denotes
Dec2(cents) == FDiv(FromInt(cents), FromInt(100))


(***************************************************************************)
(* calculate_metrics.  mat_df is the materials table, a sequence of rows   *)
(* [Material, Price] (the columns "Материал" and "Цена (₽)"); labor,       *)
(* firing and pack are floats; b_size, reject, mktg, price, tax and comm   *)
(* are Python ints, as the integer number inputs and sliders deliver them. *)
(***************************************************************************)

\* mat_df["Цена (₽)"].sum(): the float64 column summed from left to right
RECURSIVE SumFrom(_, _, _)
SumFrom(mat_df, i, acc) ==
    IF i > Len(mat_df) THEN acc
    ELSE SumFrom(mat_df, i + 1, FAdd(acc, mat_df[i].Price))

PriceSum(mat_df) == SumFrom(mat_df, 1, FZero)

\* int(b_size * (1 - reject / 100)) or 1
Sellable(b_size, reject) ==
    LET n == FTrunc(FMul(FromInt(b_size),
                         FSub(FromInt(1), FDiv(FromInt(reject), FromInt(100)))))
    IN  IF n = 0 THEN 1 ELSE n

\* a variant of Returned that reports a loss as zero profit, as the bar
\* chart does with max(0, unit_profit)
Returned_Clamped(cogs_unit, sellable, u_prod, u_mark, u_comm, u_tax, u_profit, price) ==
    [ cogs_u       |-> cogs_unit,
      sellable_u   |-> sellable,
      u_prod       |-> u_prod,
      u_mark       |-> u_mark,
      u_comm       |-> u_comm,
      u_tax        |-> u_tax,
      unit_profit  |-> IF FLt(u_profit, FZero) THEN FZero ELSE u_profit,
      total_profit |-> FMul(IF FLt(u_profit, FZero) THEN FZero ELSE u_profit,
                            FromInt(sellable)),
      margin       |-> IF price > 0
                       THEN FMul(FDiv(u_profit, FromInt(price)), FromInt(100))
                       ELSE FZero ]

\* a variant of Returned that takes the batch profit as revenue minus the
\* batch's costs, price * sellable - costs * sellable
Returned_Distributed(cogs_unit, sellable, u_prod, u_mark, u_comm, u_tax, u_profit, price) ==
    [ cogs_u       |-> cogs_unit,
      sellable_u   |-> sellable,
      u_prod       |-> u_prod,
      u_mark       |-> u_mark,
      u_comm       |-> u_comm,
      u_tax        |-> u_tax,
      unit_profit  |-> u_profit,
      total_profit |-> FSub(FMul(FromInt(price), FromInt(sellable)),
                            FMul(FAdd(FAdd(FAdd(u_prod, u_mark), u_comm), u_tax),
                                 FromInt(sellable))),
      margin       |-> IF price > 0
                       THEN FMul(FDiv(u_profit, FromInt(price)), FromInt(100))
                       ELSE FZero ]

\* u_profit, t_profit and margin_val, and the returned tuple
Returned(cogs_unit, sellable, u_prod, u_mark, u_comm, u_tax, u_profit, price) ==
    [ cogs_u       |-> cogs_unit,
      sellable_u   |-> sellable,
      u_prod       |-> u_prod,
      u_mark       |-> u_mark,
      u_comm       |-> u_comm,
      u_tax        |-> u_tax,
      unit_profit  |-> u_profit,
      total_profit |-> FMul(u_profit, FromInt(sellable)),
      margin       |-> IF price > 0
                       THEN FMul(FDiv(u_profit, FromInt(price)), FromInt(100))
                       ELSE FZero ]

\* a variant of UnitProfit that leaves the tax out of the costs
UnitProfit_NoTax(cogs_unit, sellable, u_prod, u_mark, u_comm, u_tax, price) ==
    Returned(cogs_unit, sellable, u_prod, u_mark, u_comm, u_tax,
             FSub(FromInt(price), FAdd(FAdd(u_prod, u_mark), u_comm)),
             price)

\* u_profit = price - (u_prod + u_mark + u_comm + u_tax)
UnitProfit(cogs_unit, sellable, u_prod, u_mark, u_comm, u_tax, price) ==
    Returned(cogs_unit, sellable, u_prod, u_mark, u_comm, u_tax,
             FSub(FromInt(price), FAdd(FAdd(FAdd(u_prod, u_mark), u_comm), u_tax)),
             price)

\* a variant of UnitCosts that charges each unit its own cost only,
\* leaving the rejected units' cost out
UnitCosts_NoRejects(cogs_unit, sellable, b_size, mktg, price, tax, comm) ==
    UnitProfit(cogs_unit, sellable,
               cogs_unit,
               FDiv(FromInt(mktg), FromInt(sellable)),
               FMul(FromInt(price), FDiv(FromInt(comm), FromInt(100))),
               FMul(FromInt(price), FDiv(FromInt(tax), FromInt(100))),
               price)

\* u_prod, u_mark, u_comm and u_tax: the batch's costs over the sellable
\* units, commission and tax on the price
UnitCosts(cogs_unit, sellable, b_size, mktg, price, tax, comm) ==
    UnitProfit(cogs_unit, sellable,
               FDiv(FMul(cogs_unit, FromInt(b_size)), FromInt(sellable)),
               FDiv(FromInt(mktg), FromInt(sellable)),
               FMul(FromInt(price), FDiv(FromInt(comm), FromInt(100))),
               FMul(FromInt(price), FDiv(FromInt(tax), FromInt(100))),
               price)

\* cogs_unit = mat_cost + labor + firing + pack
CogsUnit(mat_df, labor, firing, pack) ==
    FAdd(FAdd(FAdd(PriceSum(mat_df), labor), firing), pack)

calculate_metrics(mat_df, labor, firing, pack, b_size, reject, mktg, price, tax, comm) ==
    UnitCosts(CogsUnit(mat_df, labor, firing, pack), Sellable(b_size, reject),
              b_size, mktg, price, tax, comm)

\* f"{x:.{digits}f}": x rounded to `digits` decimals, ties (exact in binary)
\* to even; the text is "-" if neg, then n with a point `digits` from the
\* right
FormatFixed(x, digits) ==
    LET v    == ExactMul(x, FromInt(10^digits))
        k    == 0 - v.e
        q    == BShr(v.m, k)
        rest == BSub(v.m, BShl(q, k))
        c    == BCmp(rest, BShl(<<1>>, k - 1))
        up   == c > 0 \/ (c = 0 /\ BIsOdd(q))
    IN  [neg |-> x.sgn = 1,
         n   |-> IF v.e >= 0 THEN BToInt(BShl(v.m, v.e))
                 ELSE BToInt(IF up THEN BAdd(q, <<1>>) ELSE q)]

(***************************************************************************)
(* The application state.                                                  *)
(***************************************************************************)
VARIABLES
    session_state,  \* st.session_state: the widgets' values, materials_df,
                    \* history and last_pdf
    sb,             \* _get_supabase_client() is not None (cached per process)
    calculations,   \* the rows of the remote table "calculations"
    clock,          \* the time, in saves
    edits,          \* widget edits made so far
    run             \* the latest script run: what it was, and its locals

vars == <<session_state, sb, calculations, clock, edits, run>>

MaxSaves == 2
MaxEdits == 1
MaxMaterials == 5

\* dict.get(key, default)
Get(d, key, default) == IF key \in DOMAIN d THEN d[key] ELSE default

\* None is <<>>, a value v that may be None is <<v>>
None == <<>>
Some(v) == <<v>>
IsNone(o) == o = <<>>
The(o) == o[1]

Row(name, cents) == [Material |-> name, Price |-> Dec2(cents)]

\* the initial materials table: "Глазурь (осн.)", "Глазурь (декор)",
\* "Глина (масса 1)", "Глина (масса 2)"
DefaultMaterials ==
    << Row("glaze-base", 1858), Row("glaze-decor", 2118),
       Row("clay-1", 5828), Row("clay-2", 1867) >>

\* the session state after the first script run's setdefault calls
DefaultState ==
    [ calc_title      |-> "",
      labor_unit      |-> FromInt(150),
      firing_unit     |-> FromInt(20),
      pack_unit       |-> FromInt(30),
      batch_size      |-> 100,
      reject_rate     |-> 5,
      marketing_total |-> 5000,
      sell_price      |-> 1200,
      tax_pct         |-> 6,
      mp_pct          |-> 20,
      materials_df    |-> DefaultMaterials,
      history         |-> <<>>,
      last_pdf        |-> None ]

\* the calculate_metrics call of a script run over the widgets' values
ScriptMetrics(ss) ==
    calculate_metrics(ss.materials_df, ss.labor_unit, ss.firing_unit, ss.pack_unit,
                      ss.batch_size, ss.reject_rate, ss.marketing_total,
                      ss.sell_price, ss.tax_pct, ss.mp_pct)

Metrics == ScriptMetrics(session_state)


(***************************************************************************)
(* The save handler's pieces.                                              *)
(***************************************************************************)

\* the snapshot dict built by the save button's handler from the widgets'
\* values and the metrics of the same script run
BuildSnapshot(ss, m, now) ==
    [ schema    |-> 1,
      saved_at  |-> now,
      title     |-> ss.calc_title,
      inputs    |-> [ labor_unit      |-> ss.labor_unit,
                      firing_unit     |-> ss.firing_unit,
                      pack_unit       |-> ss.pack_unit,
                      batch_size      |-> ss.batch_size,
                      reject_rate     |-> ss.reject_rate,
                      marketing_total |-> FromInt(ss.marketing_total),
                      sell_price      |-> FromInt(ss.sell_price),
                      tax_pct         |-> ss.tax_pct,
                      mp_pct          |-> ss.mp_pct ],
      materials |-> ss.materials_df,
      metrics   |-> [ sell_price   |-> FromInt(ss.sell_price),
                      cogs_u       |-> m.cogs_u,
                      sellable_u   |-> m.sellable_u,
                      unit_profit  |-> m.unit_profit,
                      total_profit |-> m.total_profit,
                      margin       |-> m.margin,
                      u_prod       |-> m.u_prod,
                      u_mark       |-> m.u_mark,
                      u_comm       |-> m.u_comm,
                      u_tax        |-> m.u_tax ] ]

\* the fallback title "Экономика продукта"
DefaultTitle == "product-economics"

\* the title line of the report: <<title, n>> stands for "{title}, {n} шт."
\* and <<title>> for the bare title
FullTitle(snapshot) ==
    LET given      == Get(snapshot, "title", "")
        base_title == IF given /= "" THEN given ELSE DefaultTitle
        batch_sz   == Get(Get(snapshot, "inputs", <<>>), "batch_size", 0)
    IN  IF batch_sz /= 0 THEN <<base_title, batch_sz>> ELSE <<base_title>>

\* the document build_pdf_bytes renders, when it does not raise
build_pdf_bytes(snapshot) ==
    [ full_title |-> FullTitle(snapshot),
      saved_at   |-> Get(snapshot, "saved_at", 0),
      materials  |-> Get(snapshot, "materials", <<>>) ]

\* base64.b64encode(pdf_bytes).decode("utf-8") and its inverse in _fetch_pdf
B64Encode(bytes) == [b64 |-> bytes]
B64Decode(text) == text.b64

\* the row _save_to_supabase inserts; the table sets id and created_at
InsertedRow(snapshot, pdf_bytes, id, now) ==
    [ id         |-> id,
      created_at |-> now,
      title      |-> Get(snapshot, "title", ""),
      snapshot   |-> snapshot,
      pdf_base64 |-> B64Encode(pdf_bytes) ]

\* the entry the handler inserts into st.session_state.history: the time,
\* f"{total_profit:,.0f} ₽", f"{margin:.1f}%" and f"{sell_price} ₽"
HistoryEntry(ss, m, now) ==
    [ Time   |-> now,
      Profit |-> FormatFixed(m.total_profit, 0),
      Margin |-> FormatFixed(m.margin, 1),
      Price  |-> ss.sell_price ]

\* _fetch_history(limit): the rows by created_at descending, at most limit
RECURSIVE SortedDesc(_)
SortedDesc(rows) ==
    IF rows = <<>> THEN <<>>
    ELSE LET i == CHOOSE k \in 1..Len(rows) :
                    \A j \in 1..Len(rows) :
                        rows[j].created_at < rows[k].created_at
                        \/ (rows[j].created_at = rows[k].created_at /\ j >= k)
         IN  <<rows[i]>> \o SortedDesc(SubSeq(rows, 1, i - 1) \o SubSeq(rows, i + 1, Len(rows)))

HistoryLimit == 50

_fetch_history(limit) ==
    IF ~sb THEN <<>>
    ELSE SubSeq(SortedDesc(calculations), 1, Min(limit, Len(calculations)))

\* load_calculation(snapshot_data): the session state it leaves
load_calculation(ss, snapshot_data) ==
    LET inputs == Get(snapshot_data, "inputs", <<>>)
        mats   == Get(snapshot_data, "materials", <<>>)
    IN  [ss EXCEPT
           !.calc_title      = Get(snapshot_data, "title", ""),
           !.labor_unit      = Get(inputs, "labor_unit", ss.labor_unit),
           !.firing_unit     = Get(inputs, "firing_unit", ss.firing_unit),
           !.pack_unit       = Get(inputs, "pack_unit", ss.pack_unit),
           !.batch_size      = Get(inputs, "batch_size", ss.batch_size),
           !.reject_rate     = Get(inputs, "reject_rate", ss.reject_rate),
           !.marketing_total = FTrunc(Get(inputs, "marketing_total", FromInt(ss.marketing_total))),
           !.sell_price      = FTrunc(Get(inputs, "sell_price", FromInt(ss.sell_price))),
           !.tax_pct         = Get(inputs, "tax_pct", ss.tax_pct),
           !.mp_pct          = Get(inputs, "mp_pct", ss.mp_pct),
           !.materials_df    = IF mats /= <<>> THEN mats ELSE @]

\* the history expander: the remote rows when a client is configured, the
\* session's list otherwise
HistoryView ==
    IF sb
    THEN [ i \in 1..Len(_fetch_history(HistoryLimit)) |->
             [ Time   |-> _fetch_history(HistoryLimit)[i].created_at,
               Title  |-> _fetch_history(HistoryLimit)[i].title,
               Price  |-> _fetch_history(HistoryLimit)[i].snapshot.metrics.sell_price,
               Profit |-> _fetch_history(HistoryLimit)[i].snapshot.metrics.total_profit,
               Margin |-> _fetch_history(HistoryLimit)[i].snapshot.metrics.margin ] ]
    ELSE session_state.history

(***************************************************************************)
(* Actions: one per user interaction, each followed by the script run it   *)
(* triggers.                                                               *)
(***************************************************************************)

\* the values a widget is set to
WidgetValues ==
    [ calc_title      |-> {"", "mug-350"},
      labor_unit      |-> {FromInt(150), Dec2(12550)},
      firing_unit     |-> {FromInt(20), FromInt(0)},
      pack_unit       |-> {FromInt(30), Dec2(3505)},
      batch_size      |-> {100, 90, 0, -10},
      reject_rate     |-> {5, 30},
      marketing_total |-> {5000, 0},
      sell_price      |-> {1200, 0},
      tax_pct         |-> {6, 0},
      mp_pct          |-> {20, 7} ]

\* the rows a user adds to the materials table
NewRows == {Row("underglaze", 1005)}

\* the tables one interaction with the materials editor leaves: a row
\* deleted, all rows deleted, a row added, a price changed
EditedTables(df) ==
    {SubSeq(df, 1, i - 1) \o SubSeq(df, i + 1, Len(df)) : i \in 1..Len(df)}
    \cup {<<>>}
    \cup {Append(df, r) : r \in {x \in NewRows : Len(df) < MaxMaterials}}
    \cup {[df EXCEPT ![i].Price = Dec2(2500)] : i \in {k \in 1..Len(df) : k = 1}}

NoRun(op) ==
    [ op |-> op, snapshot |-> None, metrics |-> None, pdf_bytes |-> None,
      saved_id |-> None, insert |-> "not called", error |-> FALSE, raised |-> FALSE ]

Init ==
    /\ session_state = DefaultState
    /\ sb \in BOOLEAN
    /\ calculations = <<>>
    /\ clock = 0
    /\ edits = 0
    /\ run = NoRun("start")

\* a widget other than the materials editor is changed
EditWidget(key, value) ==
    /\ edits < MaxEdits
    /\ value /= session_state[key]
    /\ session_state' = [session_state EXCEPT ![key] = value]
    /\ edits' = edits + 1
    /\ run' = NoRun("edit")
    /\ UNCHANGED <<sb, calculations, clock>>

\* a variant of EditMaterials for a snapshot that holds the editor's buffer
\* itself instead of its records: the edit shows in every stored snapshot
\* made from the buffer
EditMaterials_Aliased(df) ==
    /\ edits < MaxEdits
    /\ df /= session_state.materials_df
    /\ session_state' = [session_state EXCEPT !.materials_df = df]
    /\ calculations' =
          [ i \in 1..Len(calculations) |->
              IF calculations[i].snapshot.materials = session_state.materials_df
              THEN [calculations[i] EXCEPT !.snapshot.materials = df]
              ELSE calculations[i] ]
    /\ edits' = edits + 1
    /\ run' = NoRun("edit")
    /\ UNCHANGED <<sb, clock>>

\* the materials editor is changed; the script stores its table
EditMaterials(df) ==
    /\ edits < MaxEdits
    /\ df /= session_state.materials_df
    /\ session_state' = [session_state EXCEPT !.materials_df = df]
    /\ edits' = edits + 1
    /\ run' = NoRun("edit")
    /\ UNCHANGED <<sb, calculations, clock>>

\* a variant of StoreRecord that records nothing in the session history
\* when no report was rendered
StoreRecord_ReportOnly(ss, m, now, snapshot, pdf_bytes, insert) ==
    /\ calculations' =
          IF insert = "ok"
          THEN Append(calculations,
                      InsertedRow(snapshot, The(pdf_bytes), Len(calculations) + 1, now))
          ELSE calculations
    /\ session_state' =
          [ss EXCEPT !.last_pdf = IF IsNone(pdf_bytes) THEN None
                                  ELSE Some([id |-> now, pdf |-> The(pdf_bytes)]),
                     !.history  = IF insert = "raises" \/ IsNone(pdf_bytes) THEN @
                                  ELSE <<HistoryEntry(ss, m, now)>> \o @]
    /\ run' = [ op        |-> "save",
                snapshot  |-> Some(snapshot),
                metrics   |-> Some(m),
                pdf_bytes |-> pdf_bytes,
                saved_id  |-> IF insert = "ok" THEN Some(Len(calculations) + 1) ELSE None,
                insert    |-> insert,
                error     |-> IsNone(pdf_bytes),
                raised    |-> insert = "raises" ]

\* the handler from "Persist to Supabase" on: the remote insert when a
\* report exists, then the session history entry unless the insert raised
StoreRecord(ss, m, now, snapshot, pdf_bytes, insert) ==
    /\ calculations' =
          IF insert = "ok"
          THEN Append(calculations,
                      InsertedRow(snapshot, The(pdf_bytes), Len(calculations) + 1, now))
          ELSE calculations
    /\ session_state' =
          [ss EXCEPT !.last_pdf = IF IsNone(pdf_bytes) THEN None
                                  ELSE Some([id |-> now, pdf |-> The(pdf_bytes)]),
                     !.history  = IF insert = "raises" THEN @
                                  ELSE <<HistoryEntry(ss, m, now)>> \o @]
    /\ run' = [ op        |-> "save",
                snapshot  |-> Some(snapshot),
                metrics   |-> Some(m),
                pdf_bytes |-> pdf_bytes,
                saved_id  |-> IF insert = "ok" THEN Some(Len(calculations) + 1) ELSE None,
                insert    |-> insert,
                error     |-> IsNone(pdf_bytes),
                raised    |-> insert = "raises" ]

\* the handler's try/except around build_pdf_bytes
RenderReport(ss, m, now, snapshot, pdf_ok, insert) ==
    StoreRecord(ss, m, now, snapshot,
                IF pdf_ok THEN Some(build_pdf_bytes(snapshot)) ELSE None, insert)

\* the handler, given the metrics of the script run
SaveHandler(ss, m, now, pdf_ok, insert) ==
    RenderReport(ss, m, now, BuildSnapshot(ss, m, now), pdf_ok, insert)

\* the save button is pressed.  The report may fail to render; the insert,
\* when a client is configured and a report exists, may succeed, raise, or
\* return without an id.
Save(pdf_ok, insert) ==
    /\ clock < MaxSaves
    /\ insert = IF ~pdf_ok THEN "not called"
                ELSE IF ~sb THEN "no client"
                ELSE insert
    /\ insert \in {"not called", "no client"} \/ (pdf_ok /\ sb)
    /\ SaveHandler(session_state, ScriptMetrics(session_state), clock + 1, pdf_ok, insert)
    /\ clock' = clock + 1
    /\ UNCHANGED <<sb, edits>>

\* the i-th listed row is picked and loaded into the form
Load(i) ==
    /\ sb
    /\ i \in 1..Len(_fetch_history(HistoryLimit))
    /\ LET snap == _fetch_history(HistoryLimit)[i].snapshot
       IN  /\ session_state' = load_calculation(session_state, snap)
           /\ run' = [NoRun("load") EXCEPT !.snapshot = Some(snap)]
    /\ UNCHANGED <<sb, calculations, clock, edits>>

Next ==
    \/ \E key \in DOMAIN WidgetValues : \E value \in WidgetValues[key] : EditWidget(key, value)
    \/ \E df \in EditedTables(session_state.materials_df) : EditMaterials(df)
    \/ \E pdf_ok \in BOOLEAN :
         \E insert \in {"not called", "no client", "ok", "raises", "no_id"} : Save(pdf_ok, insert)
    \/ \E i \in 1..MaxSaves : Load(i)

Spec == Init /\ [][Next]_vars


(***************************************************************************)
(* calculate_metrics on its own: the widgets hold any of CalcInputs and    *)
(* one script run computes the metrics.                                    *)
(***************************************************************************)
CalcMaterials == {<<>>, DefaultMaterials, <<Row("slip", 50)>>}
CalcLabor     == {FromInt(150), Dec2(1)}
CalcBatch     == {-10, 0, 1, 10, 90, 100}
CalcReject    == {0, 5, 30, 80, 99}
CalcMarketing == {0, 5000}
CalcPrice     == {0, 50, 1200}
CalcTax       == {0, 6}

CalcInputs ==
    { [DefaultState EXCEPT !.materials_df = mats, !.labor_unit = labor,
                           !.batch_size = b, !.reject_rate = r,
                           !.marketing_total = mk, !.sell_price = p, !.tax_pct = t] :
        mats \in CalcMaterials, labor \in CalcLabor, b \in CalcBatch,
        r \in CalcReject, mk \in CalcMarketing, p \in CalcPrice, t \in CalcTax }

InitCalc ==
    /\ session_state \in CalcInputs
    /\ sb = FALSE
    /\ calculations = <<>>
    /\ clock = 0
    /\ edits = 0
    /\ run = NoRun("input")

\* the script run's calculate_metrics call
Calc ==
    /\ run.op = "input"
    /\ run' = [NoRun("calc") EXCEPT !.metrics = Some(Metrics)]
    /\ UNCHANGED <<session_state, sb, calculations, clock, edits>>

SpecCalc == InitCalc /\ [][Calc]_vars


(***************************************************************************)
(* Claims about calculate_metrics, over SpecCalc.                          *)
(***************************************************************************)

\* the metrics a finished calculate_metrics call returned
Calculated == run.op = "calc"
Result == The(run.metrics)

\* the inputs are valid BatchInputs: batchSize >= 1, rejectRatePct in [0,100),
\* costs, marketing and price >= 0, tax and commission in [0,100)
ValidInputs ==
    /\ session_state.batch_size >= 1
    /\ session_state.reject_rate \in 0..99
    /\ session_state.marketing_total >= 0
    /\ session_state.sell_price >= 0
    /\ session_state.tax_pct \in 0..99
    /\ session_state.mp_pct \in 0..99
    /\ FLe(FZero, session_state.labor_unit)
    /\ FLe(FZero, session_state.firing_unit)
    /\ FLe(FZero, session_state.pack_unit)
    /\ \A i \in 1..Len(session_state.materials_df) :
          FLe(FZero, session_state.materials_df[i].Price)

\* max(1, floor(batchSize * (1 - rejectRatePct/100))) in exact arithmetic
ExactSellable(b_size, reject) == Max(1, (b_size * (100 - reject)) \div 100)

\* C1: for every batchSize >= 1 and rejectRatePct in [0,100) the returned
\* sellableUnits is max(1, floor(batchSize * (1 - rejectRatePct/100))).
C1_SellableIsFloor ==
    (Calculated /\ ValidInputs) =>
        Result.sellable_u =
            ExactSellable(session_state.batch_size, session_state.reject_rate)

\* the cost rows of the breakdown summed as the source sums them
CostRows(m) == FAdd(FAdd(FAdd(m.u_prod, m.u_mark), m.u_comm), m.u_tax)

\* C2: for valid inputs the per-unit cost rows (production, marketing,
\* commission, tax) added to unitProfit give sellPrice exactly.
C2_PriceConserved ==
    (Calculated /\ ValidInputs) =>
        FEq(FAdd(CostRows(Result), Result.unit_profit),
            FromInt(session_state.sell_price))

\* C2's case: a valid run whose four cost rows are all non-zero and whose
\* subtraction price - costs had to round (the exact difference is no float)
C2_Witness ==
    /\ Calculated /\ ValidInputs
    /\ ~FIsZero(Result.u_prod) /\ ~FIsZero(Result.u_mark)
    /\ ~FIsZero(Result.u_comm) /\ ~FIsZero(Result.u_tax)
    /\ Rounded(ExactSub(FromInt(session_state.sell_price), CostRows(Result)))
          /= Exact(ExactSub(FromInt(session_state.sell_price), CostRows(Result)))

\* |x| * 2^k <= |y| for exact values x and y
WithinRel(x, k, y) == FCmpMag([x EXCEPT !.e = @ + k], y) <= 0

\* C3 as stated: unitProd * sellableUnits = cogsUnit * batchSize and
\* unitMarketing * sellableUnits = marketingTotal, read either as exact
\* products or as float products.
C3_ExactAmortization ==
    (Calculated /\ ValidInputs) =>
        \/ /\ FIsZero(ExactSub(ExactMul(Result.u_prod, FromInt(Result.sellable_u)),
                               ExactMul(Result.cogs_u, FromInt(session_state.batch_size))))
           /\ FIsZero(ExactSub(ExactMul(Result.u_mark, FromInt(Result.sellable_u)),
                               FromInt(session_state.marketing_total)))
        \/ /\ FEq(FMul(Result.u_prod, FromInt(Result.sellable_u)),
                  FMul(Result.cogs_u, FromInt(session_state.batch_size)))
           /\ FEq(FMul(Result.u_mark, FromInt(Result.sellable_u)),
                  FromInt(session_state.marketing_total))

\* C3 (amended): cogsUnit is the sum of the material costs, labor, firing
\* and packaging, and the production spend of the whole batch and the
\* marketing total are spread over the sellable units up to float rounding:
\* |unitProd * sellableUnits - cogsUnit * batchSize| <= 2^-51 * cogsUnit *
\* batchSize and |unitMarketing * sellableUnits - marketingTotal| <= 2^-52 *
\* marketingTotal.
C3_AmortizedUpToRounding ==
    (Calculated /\ ValidInputs) =>
        /\ Result.cogs_u = CogsUnit(session_state.materials_df, session_state.labor_unit,
                                    session_state.firing_unit, session_state.pack_unit)
        /\ WithinRel(ExactSub(ExactMul(Result.u_prod, FromInt(Result.sellable_u)),
                              ExactMul(Result.cogs_u, FromInt(session_state.batch_size))),
                     MantBits - 2,
                     ExactMul(Result.cogs_u, FromInt(session_state.batch_size)))
        /\ WithinRel(ExactSub(ExactMul(Result.u_mark, FromInt(Result.sellable_u)),
                              FromInt(session_state.marketing_total)),
                     MantBits - 1,
                     FromInt(session_state.marketing_total))

\* C3's case: rejects leave fewer sellable units than the batch, and
\* neither quotient is exact
C3_Witness ==
    /\ Calculated /\ ValidInputs
    /\ Result.sellable_u < session_state.batch_size
    /\ ~FIsZero(ExactSub(ExactMul(Result.u_prod, FromInt(Result.sellable_u)),
                         ExactMul(Result.cogs_u, FromInt(session_state.batch_size))))
    /\ ~FIsZero(ExactSub(ExactMul(Result.u_mark, FromInt(Result.sellable_u)),
                         FromInt(session_state.marketing_total)))

\* C4: whenever sellPrice = 0, whatever the other inputs, marginPct = 0,
\* unitCommission = 0, unitTax = 0 and unitProfit = -(unitProd +
\* unitMarketing), and the snapshot built from the run stores that
\* unitProfit as it is.
C4_ZeroPrice ==
    (Calculated /\ session_state.sell_price = 0) =>
        /\ FIsZero(Result.margin)
        /\ FIsZero(Result.u_comm)
        /\ FIsZero(Result.u_tax)
        /\ FEq(Result.unit_profit, FNeg(FAdd(Result.u_prod, Result.u_mark)))
        /\ BuildSnapshot(session_state, Result, 1).metrics.unit_profit = Result.unit_profit

\* C4's case: a zero price with costs, so that unitProfit is negative
C4_Witness ==
    /\ Calculated /\ session_state.sell_price = 0
    /\ FLt(Result.unit_profit, FZero)
    /\ ~FIsZero(Result.u_mark)

\* C5: for valid inputs totalProfit is unitProfit * sellableUnits exactly.
C5_TotalProfit ==
    (Calculated /\ ValidInputs) =>
        Result.total_profit = FMul(Result.unit_profit, FromInt(Result.sellable_u))

\* C5's case: a valid run with several sellable units and a profit whose
\* product with them had to round
C5_Witness ==
    /\ Calculated /\ ValidInputs
    /\ Result.sellable_u > 1
    /\ Rounded(ExactMul(Result.unit_profit, FromInt(Result.sellable_u)))
          /= Exact(ExactMul(Result.unit_profit, FromInt(Result.sellable_u)))


(***************************************************************************)
(* Claims about the application, over Spec.                                *)
(***************************************************************************)

\* C6: whatever batch size the number input delivers, 0 and negative
\* integers included, the metrics of the script run are those of a batch
\* size coerced to >= 1, and sellableUnits >= 1.
C6_BatchCoerced ==
    /\ Metrics = ScriptMetrics([session_state EXCEPT !.batch_size = Max(1, @)])
    /\ Metrics.sellable_u >= 1

\* the session state holds exactly the snapshot's title, inputs and materials
Restored(ss, snap) ==
    /\ ss.calc_title = snap.title
    /\ ss.labor_unit = snap.inputs.labor_unit
    /\ ss.firing_unit = snap.inputs.firing_unit
    /\ ss.pack_unit = snap.inputs.pack_unit
    /\ ss.batch_size = snap.inputs.batch_size
    /\ ss.reject_rate = snap.inputs.reject_rate
    /\ FromInt(ss.marketing_total) = snap.inputs.marketing_total
    /\ FromInt(ss.sell_price) = snap.inputs.sell_price
    /\ ss.tax_pct = snap.inputs.tax_pct
    /\ ss.mp_pct = snap.inputs.mp_pct
    /\ ss.materials_df = snap.materials

\* C7: after load_calculation every input field and the materials list
\* equal the loaded snapshot's values, whatever they were before the load,
\* also when the snapshot's materials list is empty.
C7_LoadRestores ==
    run.op = "load" => Restored(session_state, The(run.snapshot))

\* the history the user lists holds a record made at the snapshot's time
Listed(snap) ==
    \E i \in 1..Len(HistoryView) : HistoryView[i].Time = snap.saved_at

\* C8: after a save whose report failed to render, the history the user
\* lists from holds a record for that snapshot, with or without a backend.
C8_SavedWithoutReport ==
    (run.op = "save" /\ run.error) => Listed(The(run.snapshot))

\* C9: with no backend configured the remote save gives None without
\* raising, every save puts exactly one record at the head of the session
\* history, and that list is the one shown to the user.
C9_SessionFallback ==
    ~sb =>
        /\ Len(session_state.history) = clock
        /\ \A i \in 1..clock : session_state.history[i].Time = clock - i + 1
        /\ HistoryView = session_state.history
        /\ calculations = <<>>
        /\ run.op = "save" =>
              /\ IsNone(run.saved_id)
              /\ ~run.raised
              /\ session_state.history[1] =
                    HistoryEntry(session_state, The(run.metrics), The(run.snapshot).saved_at)
              /\ Listed(The(run.snapshot))

\* C9's case: no backend, and a save without a report after an earlier save
C9_Witness ==
    /\ ~sb
    /\ run.op = "save"
    /\ run.error
    /\ clock >= 2
    /\ session_state.history[2].Time = clock - 1

\* C10: with a backend configured, a save whose insert raises or returns
\* no id still puts its record at the head of the session history and the
\* handler runs to its end.
C10_RemoteFailureDegrades ==
    (sb /\ run.op = "save" /\ run.insert \in {"raises", "no_id"}) =>
        /\ ~run.raised
        /\ Len(session_state.history) >= 1
        /\ session_state.history[1].Time = The(run.snapshot).saved_at

\* C11: a saved snapshot is never changed: whatever step follows (edits of
\* the materials table or of the input fields, further saves, loads), every
\* stored row keeps its snapshot, materials, inputs and metrics included,
\* and no stored row is removed.
C11_SnapshotImmutable ==
    [][ /\ Len(calculations') >= Len(calculations)
        /\ \A i \in 1..Len(calculations) :
              /\ calculations'[i].snapshot = calculations[i].snapshot
              /\ calculations'[i] = calculations[i] ]_vars

\* C11's case: a snapshot of the initial materials is stored, and the live
\* materials table was edited after the save
C11_Witness ==
    /\ Len(calculations) >= 1
    /\ calculations[1].snapshot.materials = DefaultMaterials
    /\ session_state.materials_df /= DefaultMaterials
    /\ run.op = "edit"

\* the session history's entries are in reverse order of saving
HistoryNewestFirst ==
    \A i, j \in 1..Len(session_state.history) :
        i < j => session_state.history[i].Time > session_state.history[j].Time

\* the persistent listing gives at most limit rows, by created_at descending
FetchNewestFirst(limit) ==
    /\ Len(_fetch_history(limit)) <= limit
    /\ \A i, j \in 1..Len(_fetch_history(limit)) :
          i < j => _fetch_history(limit)[i].created_at >= _fetch_history(limit)[j].created_at

\* C12: after any sequence of saves the session history holds one entry per
\* save, the latest save's entry at the front and the earlier ones behind it
\* in reverse order of saving, and the persistent listing is ordered by
\* created_at descending within the limit.
C12_NewestFirst ==
    /\ Len(session_state.history) = clock
    /\ \A i \in 1..Len(session_state.history) :
          session_state.history[i].Time = clock - i + 1
    /\ HistoryNewestFirst
    /\ FetchNewestFirst(1)
    /\ FetchNewestFirst(HistoryLimit)

\* the title line as stated: "{title or default title}, {batchSize} шт."
\* exactly when batchSize > 0, the title or the default title otherwise
StatedTitle(snap) ==
    IF snap.inputs.batch_size > 0
    THEN <<IF snap.title /= "" THEN snap.title ELSE DefaultTitle, snap.inputs.batch_size>>
    ELSE <<IF snap.title /= "" THEN snap.title ELSE DefaultTitle>>

\* C13: the title line of a rendered report carries the batch size exactly
\* when the snapshot's batchSize > 0 and is the bare title (the default
\* title when none was given) for every other batch size, 0 and negative
\* values included.
C13_TitleLine ==
    (run.op = "save" /\ ~IsNone(run.pdf_bytes)) =>
        The(run.pdf_bytes).full_title = StatedTitle(The(run.snapshot))

\* calculate_metrics applied to a snapshot's own inputs and materials
MetricsOf(snap) ==
    calculate_metrics(snap.materials, snap.inputs.labor_unit, snap.inputs.firing_unit,
                      snap.inputs.pack_unit, snap.inputs.batch_size, snap.inputs.reject_rate,
                      FTrunc(snap.inputs.marketing_total), FTrunc(snap.inputs.sell_price),
                      snap.inputs.tax_pct, snap.inputs.mp_pct)

\* the stored metrics are the metrics m, with the price of the inputs
SameMetrics(stored, m, price) ==
    /\ stored.sell_price = price
    /\ stored.cogs_u = m.cogs_u
    /\ stored.sellable_u = m.sellable_u
    /\ stored.unit_profit = m.unit_profit
    /\ stored.total_profit = m.total_profit
    /\ stored.margin = m.margin
    /\ stored.u_prod = m.u_prod
    /\ stored.u_mark = m.u_mark
    /\ stored.u_comm = m.u_comm
    /\ stored.u_tax = m.u_tax

\* a snapshot's metrics are calculate_metrics of its own inputs and materials
SelfConsistent(snap) ==
    /\ FromInt(FTrunc(snap.inputs.marketing_total)) = snap.inputs.marketing_total
    /\ FromInt(FTrunc(snap.inputs.sell_price)) = snap.inputs.sell_price
    /\ SameMetrics(snap.metrics, MetricsOf(snap), snap.inputs.sell_price)

\* every snapshot the save action built, stored or just made, is self-consistent
SnapshotsSelfConsistent ==
    /\ \A i \in 1..Len(calculations) : SelfConsistent(calculations[i].snapshot)
    /\ run.op = "save" => SelfConsistent(The(run.snapshot))

\* C14: every snapshot built by the save action holds the metrics of its
\* own inputs and materials, and after a snapshot is loaded back, whatever
\* was edited in between, the script run recomputes the metrics stored in it.
C14_SnapshotReproducible ==
    /\ SnapshotsSelfConsistent
    /\ run.op = "load" =>
          SameMetrics(The(run.snapshot).metrics, Metrics, FromInt(session_state.sell_price))


====
